---- MODULE Spec2Model ----
(***************************************************************************)
(* State-machine model of the ESP32 lab sketches of this repository:       *)
(*   - the LED sketch        (src/unnamed/part_000): WiFi + MQTT           *)
(*     supervision and JSON-keyed LED dispatch;                            *)
(*   - the telemetry sketch  (src/unnamed/part_001, lines 1-286): the      *)
(*     same, followed in every loop iteration by the time-gated light      *)
(*     sensor path and the debounced button path.                          *)
(*   - the LCD sketch        (src/src/lab3_lcd_basic.cpp): a counter and a *)
(*     simulated clock written to a character display once per second.     *)
(* Spec is the LED sketch, SpecTelemetry the telemetry sketch, SpecLongRun *)
(* the telemetry sketch followed across the wrap of the millisecond        *)
(* counter, SpecLCD the LCD sketch, SpecLcdLongRun the LCD sketch followed *)
(* from a display update made long after reset, SpecLcdCounted the same    *)
(* from the updates that precede the overflow of the int counter.          *)
(***************************************************************************)
EXTENDS Integers, Sequences, FiniteSets, TLC

(***************************************************************************)
(* Bounds of the model.                                                    *)
(***************************************************************************)
\* number of 5000 ms windows of the clock in which millis() readings fall
NumWindows == 2
\* most inbound messages handed to mqttCallback by one mqtt_client.loop()
MaxDrain == 2
\* two successive observations of the clock are less than MaxGapHi * 65536 ms
\* apart (2^31 ms, about 24 days)
MaxGapHi == 32768
\* most wraps of the millisecond counter in one run
MaxWraps == 1
\* seconds of the clock in which the LCD sketch reads millis()
LcdSeconds == 8
\* display updates between a sampled value of elapsedSeconds and the
\* rollover that follows it
Lead == 2

(***************************************************************************)
(* Program constants.                                                      *)
(***************************************************************************)
redLEDPin == 26
greenLEDPin == 27
blueLEDPin == 14
yellowLEDPin == 12
HIGH == 1
LOW == 0
NoPin == -1
sensorReadInterval == 5000
debounceInterval == 100
setupDelay == 1000
wifiPollDelay == 500
mqttRetryDelay == 5000
updateInterval == 1000
START_YEAR == 2025
START_MONTH == 1
START_DAY == 15
START_HOUR == 10
START_MINUTE == 30
START_SECOND == 0

mqtt_topic_red == "ttpu/iot/maqsud/led/red"
mqtt_topic_green == "ttpu/iot/maqsud/led/green"
mqtt_topic_blue == "ttpu/iot/maqsud/led/blue"
mqtt_topic_yellow == "ttpu/iot/maqsud/led/yellow"
mqtt_topic_sensor == "ttpu/iot/maqsud/sensors/light"
mqtt_topic_button == "ttpu/iot/maqsud/events/button"

LEDPins == {redLEDPin, greenLEDPin, blueLEDPin, yellowLEDPin}
LEDTopics == {mqtt_topic_red, mqtt_topic_green, mqtt_topic_blue, mqtt_topic_yellow}

\* topics a message can arrive on: the four LED topics, a topic that differs
\* from one of them only in case, and a topic of another subsystem
Topics == LEDTopics \cup {"ttpu/iot/maqsud/led/RED", mqtt_topic_sensor}

(***************************************************************************)
(* unsigned long: 32-bit values kept as two 16-bit limbs, so that the      *)
(* subtraction wraps modulo 2^32 as it does in the program.                *)
(***************************************************************************)
Limb == 65536

Ms(n) == [hi |-> n \div Limb, lo |-> n % Limb]

\* a - b on unsigned long (modulo 2^32)
Sub32(a, b) ==
  LET d == a.lo - b.lo
      borrow == IF d < 0 THEN 1 ELSE 0
  IN [hi |-> (a.hi - b.hi - borrow + Limb) % Limb, lo |-> (d + Limb) % Limb]

\* a + b on unsigned long (modulo 2^32)
Add32(a, b) ==
  LET s == a.lo + b.lo
      carry == s \div Limb
  IN [hi |-> (a.hi + b.hi + carry) % Limb, lo |-> s % Limb]

\* x / d and x % d on unsigned long, for a divisor d < 32768 whose quotient
\* fits an int
Div32(x, d) ==
  LET low == (x.hi % d) * Limb + x.lo
  IN [quot |-> (x.hi \div d) * Limb + (low \div d), rem |-> low % d]

\* the value of an unsigned long below 2^31
ToInt(x) == x.hi * Limb + x.lo

\* int: the largest value, and the values an int can hold after the
\* overflow of a signed addition, which is undefined behaviour
INT_MAX == 2147483647
Overflowed == {-INT_MAX - 1, -1, 0, INT_MAX}

\* x >= n and x > n for an unsigned long x and a constant n < 65536
Geq32(x, n) == x.hi > 0 \/ x.lo >= n
Gt32(x, n) == x.hi > 0 \/ x.lo > n

\* the instants at which the clock is observed
DebounceOffsets == {50, 100, 101}
Instants ==
  {Ms(0)}
    \cup {Ms(w * 5000 - 1) : w \in 1..NumWindows}
    \cup {Ms(w * 5000) : w \in 1..NumWindows}
    \cup {Ms(5000 + o) : o \in DebounceOffsets}

\* the instants at which the clock is observed in a run that is followed
\* across the wrap of the counter: after boot, half way to the wrap, 100 ms
\* before the wrap, and after it
LongRunInstants ==
  { Ms(0), Ms(1), Ms(1000), Ms(1050), Ms(4900),
    [hi |-> 32768, lo |-> 0], Sub32(Ms(0), Ms(100)) }

\* the instants at which the clock is observed by the LCD sketch
LcdInstants ==
  {Ms(k * 1000) : k \in 0..LcdSeconds}
    \cup {Ms(k * 1000 + 999) : k \in 2..(LcdSeconds - 1)}

\* a < b on unsigned long
Before(a, b) == a.hi < b.hi \/ (a.hi = b.hi /\ a.lo < b.lo)

(***************************************************************************)
(* Payloads: the text of a message as a sequence of JSON tokens.           *)
(***************************************************************************)
Tok(k, v) == [k |-> k, v |-> v]
LBrace == Tok("lbrace", "{")
RBrace == Tok("rbrace", "}")
Colon == Tok("colon", ":")
Comma == Tok("comma", ",")
Str(s) == Tok("str", s)
ScalarKinds == {"str", "int", "bool", "null"}

StatePayload(v) == <<LBrace, Str("state"), Colon, v, RBrace>>

Payloads ==
  { StatePayload(Str("ON")),
    StatePayload(Str("OFF")),
    StatePayload(Str("MAYBE")),
    StatePayload(Str("on")),
    StatePayload(Str("")),
    StatePayload(Tok("int", "1")),
    StatePayload(Tok("bool", "true")),
    StatePayload(Tok("null", "null")),
    <<LBrace, RBrace>>,
    <<LBrace, Str("other"), Colon, Str("ON"), RBrace>>,
    <<LBrace, Str("other"), Colon, Str("ON"), Comma, Str("state"), Colon, Str("OFF"), RBrace>>,
    <<Str("ON")>>,
    << >>,
    <<LBrace, Str("state"), Colon, Str("ON")>>,
    <<LBrace, Str("state"), Str("ON"), RBrace>>,
    <<Tok("junk", "ON")>> }

EmptyMembers == [x \in {} |-> Str("")]

ParseError(e) == [err |-> e, kind |-> "null", members |-> EmptyMembers]

RECURSIVE ParseMembers(_, _, _)
\* the members of an object, from the key expected at position i on
ParseMembers(toks, i, members) ==
  IF i > Len(toks) THEN ParseError("IncompleteInput")
  ELSE IF toks[i].k # "str" THEN ParseError("InvalidInput")
  ELSE IF i + 1 > Len(toks) THEN ParseError("IncompleteInput")
  ELSE IF toks[i + 1].k # "colon" THEN ParseError("InvalidInput")
  ELSE IF i + 2 > Len(toks) THEN ParseError("IncompleteInput")
  ELSE IF toks[i + 2].k \notin ScalarKinds THEN ParseError("InvalidInput")
  ELSE LET key == toks[i].v
           added == [x \in (DOMAIN members) \cup {key} |->
                       IF x = key THEN toks[i + 2] ELSE members[x]]
       IN IF i + 3 > Len(toks) THEN ParseError("IncompleteInput")
          ELSE IF toks[i + 3].k = "rbrace"
                 THEN [err |-> "Ok", kind |-> "object", members |-> added]
          ELSE IF toks[i + 3].k = "comma" THEN ParseMembers(toks, i + 4, added)
          ELSE ParseError("InvalidInput")

\* deserializeJson(doc, message): the error code and the document
deserializeJson(toks) ==
  IF Len(toks) = 0 THEN ParseError("EmptyInput")
  ELSE IF toks[1].k = "lbrace"
         THEN IF Len(toks) >= 2 /\ toks[2].k = "rbrace"
                THEN [err |-> "Ok", kind |-> "object", members |-> EmptyMembers]
                ELSE ParseMembers(toks, 2, EmptyMembers)
  ELSE IF toks[1].k \in ScalarKinds
         THEN [err |-> "Ok", kind |-> "scalar", members |-> EmptyMembers]
  ELSE ParseError("InvalidInput")

(***************************************************************************)
(* mqttCallback, as pure functions of the topic and the payload.           *)
(***************************************************************************)
\* the if / else-if chain over the topic string
ChosenLEDAnyRed(topic) ==
  IF topic = mqtt_topic_green THEN greenLEDPin
  ELSE IF topic = mqtt_topic_blue THEN blueLEDPin
  ELSE IF topic = mqtt_topic_yellow THEN yellowLEDPin
  ELSE redLEDPin

ChosenLED(topic) ==
  IF topic = mqtt_topic_red THEN redLEDPin
  ELSE IF topic = mqtt_topic_green THEN greenLEDPin
  ELSE IF topic = mqtt_topic_blue THEN blueLEDPin
  ELSE IF topic = mqtt_topic_yellow THEN yellowLEDPin
  ELSE NoPin

\* state_val: doc["state"] when it is a string, "" otherwise
StateVal(doc) ==
  IF /\ doc.kind = "object"
     /\ "state" \in DOMAIN doc.members
     /\ doc.members["state"].k = "str"
  THEN doc.members["state"].v
  ELSE ""

LedStateAnyCase(state_val) ==
  IF state_val \in {"ON", "on"} THEN HIGH
  ELSE IF state_val \in {"OFF", "off"} THEN LOW
  ELSE NoPin

\* ledState: HIGH, LOW or -1
LedState(state_val) ==
  IF state_val = "ON" THEN HIGH
  ELSE IF state_val = "OFF" THEN LOW
  ELSE NoPin

CallbackWritesOffOnError(topic, payload) ==
  LET doc == deserializeJson(payload)
      chosenLED == ChosenLED(topic)
      ledState == LedState(StateVal(doc))
  IN IF doc.err # "Ok"
       THEN (IF chosenLED # NoPin THEN {<<chosenLED, LOW>>} ELSE {})
       ELSE IF chosenLED # NoPin /\ ledState # NoPin
              THEN {<<chosenLED, ledState>>}
              ELSE {}

\* the digitalWrite calls of one mqttCallback invocation, as <<pin, level>>
CallbackWrites(topic, payload) ==
  LET doc == deserializeJson(payload)
      chosenLED == ChosenLED(topic)
      ledState == LedState(StateVal(doc))
  IN IF doc.err # "Ok" THEN {}
     ELSE IF chosenLED # NoPin /\ ledState # NoPin
            THEN {<<chosenLED, ledState>>}
            ELSE {}

DigitalWriteToggle(leds, writes) ==
  [p \in LEDPins |->
     IF \E w \in writes : w[1] = p THEN 1 - leds[p] ELSE leds[p]]

\* digitalWrite applied to the LED outputs
DigitalWrite(leds, writes) ==
  [p \in LEDPins |->
     IF \E w \in writes : w[1] = p
       THEN (CHOOSE w \in writes : w[1] = p)[2]
       ELSE leds[p]]

(***************************************************************************)
(* What a message asks for, read off its topic and its text.               *)
(***************************************************************************)
\* the LED pin each inbound topic controls
PinOfTopic ==
  [t \in LEDTopics |->
     CASE t = mqtt_topic_red -> 26
       [] t = mqtt_topic_green -> 27
       [] t = mqtt_topic_blue -> 14
       [] t = mqtt_topic_yellow -> 12]

\* payloads whose text is a JSON object with the string "ON" ("OFF") as `state`
OnPayloads == {<<LBrace, Str("state"), Colon, Str("ON"), RBrace>>}
OffPayloads ==
  { <<LBrace, Str("state"), Colon, Str("OFF"), RBrace>>,
    <<LBrace, Str("other"), Colon, Str("ON"), Comma, Str("state"), Colon, Str("OFF"), RBrace>> }

\* payloads whose text is not a JSON document
MalformedPayloads ==
  { << >>,
    <<LBrace, Str("state"), Colon, Str("ON")>>,
    <<LBrace, Str("state"), Str("ON"), RBrace>>,
    <<Tok("junk", "ON")>> }

\* the level a payload asks for: 1, 0, or -1 when it asks for none
Requested(payload) ==
  IF payload \in OnPayloads THEN 1 ELSE IF payload \in OffPayloads THEN 0 ELSE -1

(***************************************************************************)
(* State.                                                                  *)
(***************************************************************************)
VARIABLES
  sketch,              \* the program that runs: "led" or "telemetry"
  pc,                  \* position of the program
  phase,               \* "setup" or "loop": the caller of connectWiFi/connectMQTT
  wifi,                \* WiFi.status() == WL_CONNECTED
  mqttConn,            \* mqtt_client.connected()
  subscribed,          \* topics subscribed in the open broker session
  led,                 \* level of the four LED outputs
  now,                 \* millis()
  lastSensorReadTime,  \* static of loop()
  lastButtonState,     \* static of loop()
  lastDebounceTime,    \* static of loop()
  button,              \* level of the button pin
  drained,             \* messages routed by the current mqtt_client.loop()
  lastMsg,             \* message routed by the latest program step
  lastWrite,           \* digitalWrite calls of the latest program step
  netOps,              \* network calls made by the latest program step
  pub,                 \* message published by the latest program step
  sampled,             \* a sensor sample has been published
  accepted,            \* a button edge has been accepted
  lastAcceptTime,      \* clock reading at the latest accepted button edge
  repeated,            \* the latest routed message equals the one routed before it
  bounce,              \* what the button path has sampled since the latest
                       \* accepted edge: "fresh", "bounced" or "other"
  horizon,             \* the instants the clock is observed at: "boot" or "longrun"
  epoch,               \* number of times millis() has wrapped
  sampleEpoch,         \* epoch at the latest sensor sample
  prevSample,          \* time recorded at the sample before the latest one
  acceptEpoch,         \* epoch at the latest accepted button edge
  lost,                \* the sensor topic, when the latest sensor publish failed
  lastEvent,           \* `event` of the latest button event ("" before any)
  recovered,           \* the latest accepted edge was first sampled, and rejected,
                       \* inside the debounce window
  want,                \* level asked for by the latest valid command of each LED
  status,              \* LCD sketch: value returned by lcd.begin()
  lastUpdate,          \* LCD sketch: global lastUpdate
  counter,             \* LCD sketch: global counter
  elapsedSeconds,      \* LCD sketch: global elapsedSeconds
  display,             \* LCD sketch: what the latest display update has written
  fatalLed             \* LCD sketch: the LED hd44780::fatalError blinks

vars == <<sketch, pc, phase, wifi, mqttConn, subscribed, led, now, lastSensorReadTime,
          lastButtonState, lastDebounceTime, button, drained, lastMsg,
          lastWrite, netOps, pub, sampled, accepted, lastAcceptTime,
          repeated, bounce, horizon, epoch, sampleEpoch, prevSample,
          acceptEpoch, lost,
          lastEvent, recovered, want, status, lastUpdate, counter, elapsedSeconds, display,
          fatalLed>>

netVars == <<wifi, mqttConn, subscribed>>
telemetryVars == <<lastSensorReadTime, lastButtonState, lastDebounceTime,
                   sampled, accepted, lastAcceptTime, bounce, sampleEpoch,
                   prevSample, acceptEpoch, lost, lastEvent, recovered>>
lcdVars == <<status, lastUpdate, counter, elapsedSeconds, display, fatalLed>>
\* what the flashed sketch fixes, and the state of the other sketches
runVars == <<sketch, horizon, lcdVars>>
\* the state of the LED sketch and of the telemetry sketch
mqttVars == <<phase, netVars, led, telemetryVars, button, drained, lastMsg,
              lastWrite, netOps, pub, repeated, want>>

\* the instants at which the clock is observed in this run
Clock ==
  IF sketch = "lcd" THEN LcdInstants
  ELSE IF horizon = "longrun" THEN LongRunInstants
  ELSE Instants

\* the readings millis() can return once at least ms milliseconds have
\* passed since the reading n (the counter wraps modulo 2^32, at most
\* MaxWraps times in a run)
After(n, ms) ==
  {t \in Clock : /\ Geq32(Sub32(t, n), ms)
                 /\ Sub32(t, n).hi < MaxGapHi
                 /\ Before(t, n) => epoch < MaxWraps}

\* the counter has wrapped between the readings n and t
Wraps(n, t) == IF Before(t, n) THEN 1 ELSE 0

\* the state of the MQTT sketches before setup() has run
BootMqtt ==
  /\ phase = "setup"
  /\ wifi = FALSE
  /\ mqttConn = FALSE
  /\ subscribed = {}
  /\ led = [p \in LEDPins |-> LOW]
  /\ lastSensorReadTime = Ms(0)
  /\ lastButtonState = LOW
  /\ lastDebounceTime = Ms(0)
  /\ button = LOW
  /\ drained = 0
  /\ lastMsg = {}
  /\ lastWrite = {}
  /\ netOps = {}
  /\ pub = {}
  /\ sampled = FALSE
  /\ accepted = FALSE
  /\ lastAcceptTime = Ms(0)
  /\ repeated = FALSE
  /\ bounce = "fresh"
  /\ sampleEpoch = 0
  /\ prevSample = {}
  /\ acceptEpoch = 0
  /\ lost = {}
  /\ lastEvent = ""
  /\ recovered = FALSE
  /\ want = [p \in LEDPins |-> LOW]

\* the state after reset, before setup() has run
Boot ==
  /\ pc = "start"
  /\ now = Ms(0)
  /\ epoch = 0
  /\ BootMqtt
  /\ status = 0
  /\ lastUpdate = Ms(0)
  /\ counter = 0
  /\ elapsedSeconds = Ms(0)
  /\ display = {}
  /\ fatalLed = LOW

\* the LED sketch is flashed
Init == sketch = "led" /\ horizon = "boot" /\ Boot

\* the telemetry sketch is flashed
InitTelemetry == sketch = "telemetry" /\ horizon = "boot" /\ Boot

\* the LCD sketch is flashed
InitLCD == sketch = "lcd" /\ horizon = "boot" /\ Boot

\* the telemetry sketch is flashed and runs until the counter has wrapped
InitLongRun == sketch = "telemetry" /\ horizon = "longrun" /\ Boot

\* delay(ms): the clock moves on by at least ms. The LED sketch never calls
\* millis(), so its clock is left where it is.
Delay(ms) ==
  /\ now' \in (IF sketch = "led" THEN {now} ELSE After(now, ms))
  /\ epoch' = epoch + Wraps(now, now')

\* a step that routes no message, writes no LED and publishes nothing
Quiet == lastMsg' = {} /\ lastWrite' = {} /\ pub' = {} /\ repeated' = FALSE

\* a step that makes no network call
Offline == netOps' = {}

(***************************************************************************)
(* setup() and the connection supervision, shared by both sketches.        *)
(***************************************************************************)
\* setup() up to the call of connectWiFi(), and connectWiFi() up to its loop
Setup ==
  /\ pc = "start"
  /\ Delay(setupDelay)
  /\ led' = [p \in LEDPins |-> LOW]
  /\ lastWrite' = {<<p, LOW>> : p \in LEDPins}
  /\ lastMsg' = {} /\ pub' = {} /\ repeated' = FALSE
  /\ netOps' = {"WiFi.begin"}
  /\ pc' = "connectWiFi"
  /\ UNCHANGED <<runVars, want, phase, netVars, telemetryVars, button, drained>>

\* connectWiFi(): one turn of while (WiFi.status() != WL_CONNECTED)
ConnectWiFiPoll ==
  /\ pc = "connectWiFi"
  /\ ~wifi
  /\ Delay(wifiPollDelay)
  /\ Quiet
  /\ Offline
  /\ UNCHANGED <<runVars, want, pc, phase, netVars, led, telemetryVars, button, drained>>

\* connectWiFi(): the loop ends and the function returns to its caller
ConnectWiFiReturn ==
  /\ pc = "connectWiFi"
  /\ wifi
  /\ pc' = IF phase = "setup" THEN "connectMQTT" ELSE "mqtt_check"
  /\ Quiet
  /\ Offline
  /\ UNCHANGED <<runVars, want, phase, netVars, led, now, epoch, telemetryVars, button, drained>>

\* loop(): if (WiFi.status() != WL_CONNECTED) connectWiFi();
LoopWiFiCheck ==
  /\ pc = "wifi_check"
  /\ IF ~wifi
       THEN pc' = "connectWiFi" /\ netOps' = {"WiFi.begin"}
       ELSE pc' = "mqtt_check" /\ netOps' = {}
  /\ Quiet
  /\ UNCHANGED <<runVars, want, phase, netVars, led, now, epoch, telemetryVars, button, drained>>

\* loop(): if (!mqtt_client.connected()) connectMQTT();
LoopMqttCheck ==
  /\ pc = "mqtt_check"
  /\ pc' = IF ~mqttConn THEN "connectMQTT" ELSE "mqtt_loop"
  /\ Quiet
  /\ Offline
  /\ UNCHANGED <<runVars, want, phase, netVars, led, now, epoch, telemetryVars, button, drained>>

NeedsConnectAlways == TRUE

\* connectMQTT(): the condition of while (!mqtt_client.connected())
NeedsConnect == ~mqttConn

SubscribeTopicsNoYellow == {mqtt_topic_red, mqtt_topic_green, mqtt_topic_blue}

\* connectMQTT(): the topics subscribed after a successful connect
SubscribeTopics ==
  {mqtt_topic_red, mqtt_topic_green, mqtt_topic_blue, mqtt_topic_yellow}

ConnectMQTTOkResetsLeds ==
  /\ pc = "connectMQTT"
  /\ NeedsConnect
  /\ wifi
  /\ mqttConn' = TRUE
  /\ subscribed' = SubscribeTopics
  /\ netOps' = {"connect"} \cup SubscribeTopics
  /\ led' = [p \in LEDPins |-> LOW]
  /\ lastWrite' = {<<p, LOW>> : p \in LEDPins}
  /\ lastMsg' = {} /\ pub' = {} /\ repeated' = FALSE
  /\ UNCHANGED <<runVars, want, pc, phase, wifi, now, epoch, telemetryVars, button, drained>>

\* connectMQTT(): mqtt_client.connect() succeeds, the topics are subscribed
ConnectMQTTOk ==
  /\ pc = "connectMQTT"
  /\ NeedsConnect
  /\ wifi
  /\ mqttConn' = TRUE
  /\ subscribed' = SubscribeTopics
  /\ netOps' = {"connect"} \cup SubscribeTopics
  /\ Quiet
  /\ UNCHANGED <<runVars, want, pc, phase, wifi, led, now, epoch, telemetryVars, button, drained>>

ConnectMQTTFailGivesUp ==
  /\ pc = "connectMQTT"
  /\ NeedsConnect
  /\ netOps' = {"connect"}
  /\ Delay(mqttRetryDelay)
  /\ Quiet
  /\ pc' = IF phase = "setup" THEN "wifi_check" ELSE "mqtt_loop"
  /\ phase' = "loop"
  /\ UNCHANGED <<runVars, want, netVars, led, telemetryVars, button, drained>>

ConnectMQTTFailTicksSensor ==
  /\ pc = "connectMQTT"
  /\ NeedsConnect
  /\ netOps' = {"connect"}
  /\ Delay(mqttRetryDelay)
  /\ pub' = {[topic |-> mqtt_topic_sensor, light |-> 0, timestamp |-> now', ok |-> FALSE]}
  /\ lastMsg' = {} /\ lastWrite' = {} /\ repeated' = FALSE
  /\ UNCHANGED <<runVars, want, pc, phase, netVars, led, telemetryVars, button, drained>>

ConnectMQTTFailRechecksWiFi ==
  /\ pc = "connectMQTT"
  /\ NeedsConnect
  /\ netOps' = {"connect"} \cup (IF ~wifi THEN {"WiFi.begin"} ELSE {})
  /\ Delay(mqttRetryDelay)
  /\ Quiet
  /\ pc' = IF ~wifi THEN "connectWiFi" ELSE pc
  /\ UNCHANGED <<runVars, want, phase, netVars, led, telemetryVars, button, drained>>

\* connectMQTT(): mqtt_client.connect() fails, delay(5000), try again
ConnectMQTTFail ==
  /\ pc = "connectMQTT"
  /\ NeedsConnect
  /\ netOps' = {"connect"}
  /\ Delay(mqttRetryDelay)
  /\ Quiet
  /\ UNCHANGED <<runVars, want, pc, phase, netVars, led, telemetryVars, button, drained>>

\* connectMQTT(): the loop ends and the function returns to its caller
ConnectMQTTReturn ==
  /\ pc = "connectMQTT"
  /\ ~NeedsConnect
  /\ pc' = IF phase = "setup" THEN "wifi_check" ELSE "mqtt_loop"
  /\ phase' = "loop"
  /\ Quiet
  /\ Offline
  /\ UNCHANGED <<runVars, want, netVars, led, now, epoch, telemetryVars, button, drained>>

(***************************************************************************)
(* mqtt_client.loop(): inbound messages are handed to mqttCallback.        *)
(***************************************************************************)
\* one message is routed through mqttCallback
MqttLoopDeliver(topic, payload) ==
  /\ pc = "mqtt_loop"
  /\ mqttConn
  /\ drained < MaxDrain
  /\ drained' = drained + 1
  /\ lastMsg' = {[topic |-> topic, payload |-> payload]}
  /\ repeated' = (lastMsg = {[topic |-> topic, payload |-> payload]})
  /\ lastWrite' = CallbackWrites(topic, payload)
  /\ led' = DigitalWrite(led, CallbackWrites(topic, payload))
  /\ want' = IF topic \in LEDTopics /\ Requested(payload) # -1
               THEN [want EXCEPT ![PinOfTopic[topic]] = Requested(payload)]
               ELSE want
  /\ pub' = {}
  /\ Offline
  /\ UNCHANGED <<runVars, pc, phase, netVars, now, epoch, telemetryVars, button>>

MqttLoopReturnToButton ==
  /\ pc = "mqtt_loop"
  /\ pc' = IF sketch = "led" THEN "wifi_check" ELSE "button"
  /\ drained' = 0
  /\ Quiet
  /\ Offline
  /\ UNCHANGED <<runVars, want, phase, netVars, led, now, epoch, telemetryVars, button>>

\* mqtt_client.loop() returns: loop() ends (LED sketch) or goes on to the
\* sensor path (telemetry sketch)
MqttLoopReturn ==
  /\ pc = "mqtt_loop"
  /\ pc' = IF sketch = "led" THEN "wifi_check" ELSE "sensor"
  /\ drained' = 0
  /\ Quiet
  /\ Offline
  /\ UNCHANGED <<runVars, want, phase, netVars, led, now, epoch, telemetryVars, button>>

(***************************************************************************)
(* Telemetry sketch: the sensor path and the button path of loop().        *)
(***************************************************************************)
\* values analogRead(lightSensorPin) returns
LightLevels == {0, 4095}

\* results mqtt_client.publish() can return
PublishResults == IF mqttConn THEN BOOLEAN ELSE {FALSE}

SensorDueStrictly(currentTime, lastTime) ==
  Gt32(Sub32(currentTime, lastTime), sensorReadInterval)

SensorDueOnNewReading(currentTime, lastTime) == currentTime # lastTime

\* currentTime - lastSensorReadTime >= sensorReadInterval
SensorDue(currentTime, lastTime) ==
  Geq32(Sub32(currentTime, lastTime), sensorReadInterval)

SensorPathRetriesFailed ==
  /\ pc = "sensor"
  /\ \E currentTime \in After(now, 0) :
       /\ now' = currentTime
       /\ epoch' = epoch + Wraps(now, currentTime)
       /\ IF SensorDue(currentTime, lastSensorReadTime)
            THEN \E sensorValue \in LightLevels, ok \in PublishResults :
                   /\ pub' = {[topic |-> mqtt_topic_sensor, light |-> sensorValue,
                               timestamp |-> currentTime, ok |-> ok]}
                   /\ lost' = IF ok THEN lost \ {mqtt_topic_sensor}
                                    ELSE lost \cup {mqtt_topic_sensor}
                   /\ IF ok
                        THEN /\ lastSensorReadTime' = currentTime
                             /\ sampled' = TRUE
                             /\ sampleEpoch' = epoch'
                             /\ prevSample' = IF sampled THEN {lastSensorReadTime} ELSE {}
                        ELSE UNCHANGED <<lastSensorReadTime, sampled, sampleEpoch,
                                         prevSample>>
            ELSE /\ pub' = {}
                 /\ UNCHANGED <<lastSensorReadTime, sampled, sampleEpoch, prevSample, lost>>
  /\ pc' = "button"
  /\ lastMsg' = {} /\ lastWrite' = {} /\ repeated' = FALSE
  /\ Offline
  /\ UNCHANGED <<runVars, want, phase, netVars, led, lastButtonState, lastDebounceTime,
                 accepted, lastAcceptTime, bounce, acceptEpoch, lastEvent,
                 recovered, button, drained>>

\* the sensor path of one loop() iteration
SensorPath ==
  /\ pc = "sensor"
  /\ \E currentTime \in After(now, 0) :
       /\ now' = currentTime
       /\ epoch' = epoch + Wraps(now, currentTime)
       /\ IF SensorDue(currentTime, lastSensorReadTime)
            THEN /\ lastSensorReadTime' = currentTime
                 /\ sampled' = TRUE
                 /\ sampleEpoch' = epoch'
                 /\ prevSample' = IF sampled THEN {lastSensorReadTime} ELSE {}
                 /\ \E sensorValue \in LightLevels, ok \in PublishResults :
                      /\ pub' = {[topic |-> mqtt_topic_sensor, light |-> sensorValue,
                                  timestamp |-> currentTime, ok |-> ok]}
                      /\ lost' = IF ok THEN lost \ {mqtt_topic_sensor}
                                       ELSE lost \cup {mqtt_topic_sensor}
            ELSE /\ pub' = {}
                 /\ UNCHANGED <<lastSensorReadTime, sampled, sampleEpoch, prevSample, lost>>
  /\ pc' = "button"
  /\ lastMsg' = {} /\ lastWrite' = {} /\ repeated' = FALSE
  /\ Offline
  /\ UNCHANGED <<runVars, want, phase, netVars, led, lastButtonState, lastDebounceTime,
                 accepted, lastAcceptTime, bounce, acceptEpoch, lastEvent,
                 recovered, button, drained>>

DebounceAlwaysOpen(currentTime, lastTime) == TRUE

\* (currentTime - lastDebounceTime) > 100
DebounceOpen(currentTime, lastTime) ==
  Gt32(Sub32(currentTime, lastTime), debounceInterval)

ButtonStrAlwaysPressed(currentButtonState) == "pressed"

\* buttonStr
ButtonStr(currentButtonState) ==
  IF currentButtonState = HIGH THEN "pressed" ELSE "released"

\* bookkeeping of the samples taken since the latest accepted edge: "bounced"
\* while the first level change sampled after that edge came less than the
\* debounce interval after it and the sampled level has not gone back since
Sampled(was, differs, early) ==
  IF differs
    THEN (IF was = "fresh" THEN (IF early THEN "bounced" ELSE "other") ELSE was)
    ELSE (IF was = "fresh" THEN "fresh" ELSE "other")

EdgeSeenWhilePressed(currentButtonState, last) ==
  currentButtonState # last \/ currentButtonState = HIGH

\* currentButtonState != lastButtonState
EdgeSeen(currentButtonState, last) == currentButtonState # last

ButtonPathRecordsRejected ==
  /\ pc = "button"
  /\ \E currentTime \in After(now, 0) :
       /\ now' = currentTime
       /\ epoch' = epoch + Wraps(now, currentTime)
       /\ lastButtonState' = button
       /\ IF /\ EdgeSeen(button, lastButtonState)
             /\ DebounceOpen(currentTime, lastDebounceTime)
            THEN /\ lastDebounceTime' = currentTime
                 /\ accepted' = TRUE
                 /\ lastAcceptTime' = currentTime
                 /\ acceptEpoch' = epoch'
                 /\ bounce' = "fresh"
                 /\ lastEvent' = ButtonStr(button)
                 /\ recovered' = (bounce = "bounced")
                 /\ lost' = lost
                 /\ \E ok \in PublishResults :
                      pub' = {[topic |-> mqtt_topic_button, event |-> ButtonStr(button),
                               timestamp |-> currentTime, ok |-> ok]}
            ELSE /\ pub' = {}
                 /\ bounce' = "other"
                 /\ UNCHANGED <<lastDebounceTime, accepted, lastAcceptTime,
                                acceptEpoch, lastEvent, recovered, lost>>
  /\ pc' = "wifi_check"
  /\ lastMsg' = {} /\ lastWrite' = {} /\ repeated' = FALSE
  /\ Offline
  /\ UNCHANGED <<runVars, want, phase, netVars, led, lastSensorReadTime, sampled,
                 sampleEpoch, prevSample, button, drained>>

\* the button path of one loop() iteration
ButtonPath ==
  /\ pc = "button"
  /\ \E currentTime \in After(now, 0) :
       /\ now' = currentTime
       /\ epoch' = epoch + Wraps(now, currentTime)
       /\ IF /\ EdgeSeen(button, lastButtonState)
             /\ DebounceOpen(currentTime, lastDebounceTime)
            THEN /\ lastButtonState' = button
                 /\ lastDebounceTime' = currentTime
                 /\ accepted' = TRUE
                 /\ lastAcceptTime' = currentTime
                 /\ acceptEpoch' = epoch'
                 /\ bounce' = "fresh"
                 /\ lastEvent' = ButtonStr(button)
                 /\ recovered' = (bounce = "bounced")
                 /\ lost' = lost
                 /\ \E ok \in PublishResults :
                      pub' = {[topic |-> mqtt_topic_button, event |-> ButtonStr(button),
                               timestamp |-> currentTime, ok |-> ok]}
            ELSE /\ pub' = {}
                 /\ bounce' = Sampled(bounce, button # lastButtonState,
                                      accepted /\ ~Geq32(Sub32(currentTime, lastAcceptTime),
                                                         debounceInterval))
                 /\ UNCHANGED <<lastButtonState, lastDebounceTime, accepted,
                                lastAcceptTime, acceptEpoch, lastEvent, recovered, lost>>
  /\ pc' = "wifi_check"
  /\ lastMsg' = {} /\ lastWrite' = {} /\ repeated' = FALSE
  /\ Offline
  /\ UNCHANGED <<runVars, want, phase, netVars, led, lastSensorReadTime, sampled,
                 sampleEpoch, prevSample, button, drained>>

(***************************************************************************)
(* The environment: the access point and the broker.                       *)
(***************************************************************************)
\* the association requested by WiFi.begin() completes
WiFiUp ==
  /\ pc # "start"
  /\ ~wifi
  /\ wifi' = TRUE
  /\ UNCHANGED <<runVars, want, pc, phase, mqttConn, subscribed, led, now, epoch, telemetryVars,
                 button, drained, lastMsg, lastWrite, netOps, pub, repeated>>

\* the association is lost
WiFiDown ==
  /\ wifi
  /\ wifi' = FALSE
  /\ UNCHANGED <<runVars, want, pc, phase, mqttConn, subscribed, led, now, epoch, telemetryVars,
                 button, drained, lastMsg, lastWrite, netOps, pub, repeated>>

\* the broker session is lost, and its subscriptions with it
BrokerDrop ==
  /\ mqttConn
  /\ mqttConn' = FALSE
  /\ subscribed' = {}
  /\ UNCHANGED <<runVars, want, pc, phase, wifi, led, now, epoch, telemetryVars, button, drained,
                 lastMsg, lastWrite, netOps, pub, repeated>>

\* the button is pressed or released
ButtonChange ==
  /\ button' = IF button = LOW THEN HIGH ELSE LOW
  /\ UNCHANGED <<runVars, want, pc, phase, netVars, led, now, epoch, telemetryVars, drained,
                 lastMsg, lastWrite, netOps, pub, repeated>>

Deliver == \E topic \in Topics, payload \in Payloads : MqttLoopDeliver(topic, payload)

\* the LED sketch
Next ==
  \/ Setup
  \/ ConnectWiFiPoll
  \/ ConnectWiFiReturn
  \/ LoopWiFiCheck
  \/ LoopMqttCheck
  \/ ConnectMQTTOk
  \/ ConnectMQTTFail
  \/ ConnectMQTTReturn
  \/ Deliver
  \/ MqttLoopReturn
  \/ WiFiUp
  \/ WiFiDown
  \/ BrokerDrop

Spec == Init /\ [][Next]_vars

\* messages that arrive in the telemetry sketch
TelemetryTopics == {mqtt_topic_red}
TelemetryPayloads == {StatePayload(Str("ON")), StatePayload(Str("OFF"))}

DeliverTelemetry ==
  \E topic \in TelemetryTopics, payload \in TelemetryPayloads :
    MqttLoopDeliver(topic, payload)

\* the telemetry sketch
NextTelemetry ==
  \/ Setup
  \/ ConnectWiFiPoll
  \/ ConnectWiFiReturn
  \/ LoopWiFiCheck
  \/ LoopMqttCheck
  \/ ConnectMQTTOk
  \/ ConnectMQTTFail
  \/ ConnectMQTTReturn
  \/ DeliverTelemetry
  \/ MqttLoopReturn
  \/ SensorPath
  \/ ButtonPath
  \/ WiFiUp
  \/ WiFiDown
  \/ BrokerDrop
  \/ ButtonChange

SpecTelemetry == InitTelemetry /\ [][NextTelemetry]_vars

\* a button tick that reads the clock once the debounce interval has passed
OpenButtonTick == ButtonPath /\ DebounceOpen(now', lastDebounceTime)

\* the telemetry sketch with a clock that moves on: when the button path
\* runs again and again, it comes to read a time past the debounce interval
SpecTelemetryLive ==
  InitTelemetry /\ [][NextTelemetry]_vars /\ SF_vars(OpenButtonTick)

\* the telemetry sketch, followed until the millisecond counter has wrapped
SpecLongRun == InitLongRun /\ [][NextTelemetry]_vars

(***************************************************************************)
(* The LCD sketch: setup(), loop() and calculateCurrentTime().             *)
(***************************************************************************)
\* values lcd.begin() returns: 0 on success, an error code otherwise
LcdStatuses == {0, 1, -4}

\* setup() up to lcd.begin(), which succeeds
LcdBeginOk ==
  /\ pc = "start"
  /\ Delay(setupDelay)
  /\ status' = 0
  /\ pc' = "lcd_init"
  /\ UNCHANGED <<sketch, horizon, mqttVars, lastUpdate, counter, elapsedSeconds,
                 display, fatalLed>>

LcdBeginFailGoesOn ==
  /\ pc = "start"
  /\ Delay(setupDelay)
  /\ status' \in LcdStatuses \ {0}
  /\ pc' = "lcd_init"
  /\ UNCHANGED <<sketch, horizon, mqttVars, lastUpdate, counter, elapsedSeconds,
                 display, fatalLed>>

\* setup() up to lcd.begin(), which fails: hd44780::fatalError(status)
LcdBeginFail ==
  /\ pc = "start"
  /\ Delay(setupDelay)
  /\ status' \in LcdStatuses \ {0}
  /\ pc' = "fatalError"
  /\ UNCHANGED <<sketch, horizon, mqttVars, lastUpdate, counter, elapsedSeconds,
                 display, fatalLed>>

\* hd44780::fatalError(): blinks the error code on the LED and never returns
FatalError ==
  /\ pc = "fatalError"
  /\ Delay(0)
  /\ fatalLed' = IF fatalLed = LOW THEN HIGH ELSE LOW
  /\ UNCHANGED <<sketch, horizon, mqttVars, pc, status, lastUpdate, counter,
                 elapsedSeconds, display>>

\* the rest of setup(): "Initializing...", delay(1000), lcd.clear()
LcdSetupFinish ==
  /\ pc = "lcd_init"
  /\ Delay(setupDelay)
  /\ display' = {}
  /\ pc' = "lcd_loop"
  /\ UNCHANGED <<sketch, horizon, mqttVars, status, lastUpdate, counter,
                 elapsedSeconds, fatalLed>>

OverflowTurnLateRollover(d) ==
  IF d.day > 30
    THEN (IF d.month > 12
            THEN [day |-> d.day - 30, month |-> 1, year |-> d.year + 1]
            ELSE [day |-> d.day - 30, month |-> d.month + 1, year |-> d.year])
    ELSE d

\* one evaluation of while (day > 30), and the body when the test holds:
\* day -= 30; month++; if (month > 12) { month = 1; year++; }
OverflowTurn(d) ==
  IF d.day > 30
    THEN (IF d.month + 1 > 12
            THEN [day |-> d.day - 30, month |-> 1, year |-> d.year + 1]
            ELSE [day |-> d.day - 30, month |-> d.month + 1, year |-> d.year])
    ELSE d

\* the most turns the loop can take: totalSeconds is below 2^32
MaxTurns ==
  (START_DAY + (Div32([hi |-> Limb - 1, lo |-> Limb - 1], 60).quot \div 60) \div 24)
    \div 30 + 1

RECURSIVE Turns(_, _)
\* n successive evaluations of the loop test, from the date d; once the
\* test has failed the date no longer changes
Turns(n, d) ==
  IF n = 0 THEN d
  ELSE IF n = 1 THEN OverflowTurn(d)
  ELSE LET half == Turns(n \div 2, d)
       IN IF half.day > 30 THEN Turns(n - n \div 2, half) ELSE half

\* while (day > 30) { ... }: the loop runs until the test fails
DateOverflow(day, month, year) ==
  Turns(MaxTurns, [day |-> day, month |-> month, year |-> year])

\* calculateCurrentTime(hour, minute, second, day, month, year)
calculateCurrentTime(elapsed) ==
  LET totalSeconds ==
        Add32(Ms(START_HOUR * 3600 + START_MINUTE * 60 + START_SECOND), elapsed)
      totalMinutes == Div32(totalSeconds, 60).quot
      totalHours == totalMinutes \div 60
      totalDays == totalHours \div 24
      date == DateOverflow(START_DAY + totalDays, START_MONTH, START_YEAR)
  IN [hour |-> totalHours % 24, minute |-> totalMinutes % 60,
      second |-> Div32(totalSeconds, 60).rem,
      day |-> date.day, month |-> date.month, year |-> date.year]

\* currentTime - lastUpdate >= updateInterval
UpdateDue(currentTime, lastTime) ==
  Geq32(Sub32(currentTime, lastTime), updateInterval)

\* counter++ on an int: past INT_MAX the addition overflows
Increment(i) == IF i = INT_MAX THEN Overflowed ELSE {i + 1}

\* one iteration of loop()
LcdLoop ==
  /\ pc = "lcd_loop"
  /\ \E currentTime \in After(now, 0) :
       /\ now' = currentTime
       /\ epoch' = epoch + Wraps(now, currentTime)
       /\ IF UpdateDue(currentTime, lastUpdate)
            THEN /\ lastUpdate' = currentTime
                 /\ elapsedSeconds' = Add32(elapsedSeconds, Ms(1))
                 /\ counter' \in Increment(counter)
                 /\ display' = {[count |-> counter',
                                 time |-> calculateCurrentTime(elapsedSeconds')]}
            ELSE UNCHANGED <<lastUpdate, elapsedSeconds, counter, display>>
  /\ UNCHANGED <<sketch, horizon, mqttVars, pc, status, fatalLed>>

\* values of elapsedSeconds shortly before a field of the simulated clock
\* rolls over (minute, hour, day, month, year), before the int counter
\* reaches INT_MAX, before totalSeconds wraps and before elapsedSeconds wraps
ElapsedSamples ==
  { Ms(60 - Lead), Ms(1800 - Lead), Ms(48600 - Lead),
    Ms(1344600 - Lead), Ms(29856600 - Lead),
    Sub32([hi |-> 32768, lo |-> 0], Ms(Lead)),
    Sub32(Ms(0), Ms(START_HOUR * 3600 + START_MINUTE * 60 + START_SECOND + Lead)),
    Sub32(Ms(0), Ms(Lead)) }

\* the values counter can hold once elapsedSeconds display updates are done
CounterAfter(elapsed) ==
  IF elapsed.hi < 32768 THEN {ToInt(elapsed)} ELSE Overflowed

\* the LCD sketch in loop(), after the display update that has brought
\* elapsedSeconds to one of the sampled values
InitLcdLongRun ==
  /\ sketch = "lcd"
  /\ horizon = "longrun"
  /\ BootMqtt
  /\ pc = "lcd_loop"
  /\ now = Ms(0)
  /\ epoch = 0
  /\ status = 0
  /\ fatalLed = LOW
  /\ lastUpdate = now
  /\ elapsedSeconds \in ElapsedSamples
  /\ counter \in CounterAfter(elapsedSeconds)
  /\ display = {[count |-> counter, time |-> calculateCurrentTime(elapsedSeconds)]}

\* the LCD sketch, followed from a late display update on
SpecLcdLongRun == InitLcdLongRun /\ [][LcdLoop]_vars

\* the same, from the updates before which counter++ has never overflowed
InitLcdCounted == InitLcdLongRun /\ elapsedSeconds.hi < 32768

SpecLcdCounted == InitLcdCounted /\ [][LcdLoop]_vars

\* the LCD sketch
NextLCD ==
  \/ LcdBeginOk
  \/ LcdBeginFail
  \/ FatalError
  \/ LcdSetupFinish
  \/ LcdLoop

SpecLCD == InitLCD /\ [][NextLCD]_vars

(***************************************************************************)
(* Vocabulary of the properties.                                           *)
(***************************************************************************)
\* the step routes a message through mqttCallback
DeliveryStep == drained' = drained + 1

\* the step is the sensor path, the button path of a loop() iteration
SensorTick == pc = "sensor" /\ pc' = "button"
ButtonTick == pc = "button" /\ pc' = "wifi_check"

(***************************************************************************)
(* C1: a message on one of the four LED topics whose payload has the       *)
(* string field `state` equal to exactly "ON" ("OFF") makes mqttCallback   *)
(* write HIGH (LOW) to the pin of that topic, and nothing else; with any   *)
(* other `state` value, a non-string or a missing `state`, mqttCallback    *)
(* writes no LED output.                                                   *)
(***************************************************************************)
C1_ValidStateDrivesLed ==
  [][DeliveryStep =>
       \A m \in lastMsg' :
         m.topic \in LEDTopics =>
           IF Requested(m.payload) # -1
             THEN /\ lastWrite' = {<<PinOfTopic[m.topic], Requested(m.payload)>>}
                  /\ led'[PinOfTopic[m.topic]] = Requested(m.payload)
                  /\ \A p \in LEDPins \ {PinOfTopic[m.topic]} : led'[p] = led[p]
             ELSE lastWrite' = {} /\ led' = led]_vars

C1_Witness ==
  /\ lastMsg = {[topic |-> mqtt_topic_green, payload |-> StatePayload(Str("ON"))]}
  /\ lastWrite = {<<27, 1>>}
  /\ led[27] = 1

(***************************************************************************)
(* C2: a message on a topic that is not one of the four LED topics leaves  *)
(* all four LED outputs unchanged, whatever its payload.                   *)
(***************************************************************************)
C2_UnknownTopicNoWrite ==
  [][DeliveryStep =>
       \A m \in lastMsg' :
         m.topic \notin LEDTopics => lastWrite' = {} /\ led' = led]_vars

C2_Witness ==
  /\ \E m \in lastMsg : m.topic \notin LEDTopics /\ m.payload \in OnPayloads
  /\ lastWrite = {}
  /\ \E p \in LEDPins : led[p] = 0

(***************************************************************************)
(* C3: whenever the broker session is open, and so whenever a message is   *)
(* routed to mqttCallback, the four LED topics have been subscribed in     *)
(* that session: every successful connect of connectMQTT, the first one    *)
(* and every reconnect, subscribes red, green, blue and yellow before      *)
(* mqtt_client.loop() runs.                                                *)
(***************************************************************************)
C3_SubscribedBeforeRouting ==
  /\ [](mqttConn => LEDTopics \subseteq subscribed)
  /\ [][DeliveryStep => pc = "mqtt_loop" /\ LEDTopics \subseteq subscribed]_vars

\* a reconnect inside loop() has subscribed the four topics again
C3_Witness ==
  /\ phase = "loop"
  /\ pc = "connectMQTT"
  /\ "connect" \in netOps
  /\ mqttConn
  /\ subscribed = LEDTopics

(***************************************************************************)
(* C4 (as claimed): two level changes sampled less than 100 ms apart yield *)
(* at most one accepted edge: when the first level change sampled after an *)
(* accepted edge comes less than 100 ms after it, it never yields an       *)
(* accepted edge of its own, also when the level stays as it is.           *)
(***************************************************************************)
C4_AtMostOneEdgePerPair ==
  [][ButtonTick /\ pub' # {} => bounce # "bounced"]_vars

(***************************************************************************)
(* C4 (amended): two accepted button edges (two publishes to the button    *)
(* topic) are never less than 100 ms apart: a level change sampled less    *)
(* than 100 ms after the latest accepted edge is not accepted on that      *)
(* tick. It is accepted on a later tick if the level still differs then.   *)
(***************************************************************************)
C4_AcceptedEdgesApart ==
  [][ButtonTick /\ accepted =>
       /\ pub' # {} => Geq32(Sub32(now', lastAcceptTime), 100)
       /\ ~Geq32(Sub32(now', lastAcceptTime), 100) =>
            /\ pub' = {}
            /\ lastButtonState' = lastButtonState
            /\ lastAcceptTime' = lastAcceptTime]_vars

\* a level change sampled 50 ms after the accepted edge has been suppressed
C4_Witness ==
  /\ pc = "wifi_check"
  /\ accepted
  /\ lastAcceptTime = Ms(5000)
  /\ now = Ms(5050)
  /\ button # lastButtonState
  /\ bounce = "bounced"
  /\ pub = {}

(***************************************************************************)
(* C5 (as claimed): the first sensor tick of the loop publishes a sample   *)
(* (the tick at t=0), a later tick publishes exactly when at least 5000 ms *)
(* have passed since the latest sample.                                    *)
(***************************************************************************)
C5_FirstTickPublishes ==
  /\ [](pc = "button" => sampled)
  /\ [][SensorTick /\ sampled =>
          (pub' # {} <=> Geq32(Sub32(now', lastSensorReadTime), 5000))]_vars

(***************************************************************************)
(* C5 (amended): the interval is measured from lastSensorReadTime, which   *)
(* is 0 until the first sample: a tick publishes exactly when millis()     *)
(* minus lastSensorReadTime is at least 5000. Before the first sample the  *)
(* ticks at t=0 and t=4999 publish nothing and the tick at t=5000 fires    *)
(* the first publish.                                                      *)
(***************************************************************************)
C5_SensorGateFromLastSample ==
  /\ [](~sampled => lastSensorReadTime = Ms(0))
  /\ [][SensorTick =>
          /\ pub' # {} <=> Geq32(Sub32(now', lastSensorReadTime), 5000)
          /\ ~sampled /\ now' \in {Ms(0), Ms(4999)} => pub' = {} /\ ~sampled'
          /\ ~sampled /\ now' = Ms(5000) =>
               /\ sampled'
               /\ \E m \in pub' : m.topic = mqtt_topic_sensor
               /\ lastSensorReadTime' = Ms(5000)]_vars

\* the tick at t=4999 has published nothing; no sample has been taken yet
C5_Witness ==
  /\ pc = "button"
  /\ now = Ms(4999)
  /\ ~sampled
  /\ pub = {}

(***************************************************************************)
(* C6: once an edge has been accepted, a button tick accepts a transition  *)
(* if and only if the raw level differs from the last accepted level and   *)
(* at least 100 ms have passed since the last accepted transition; a       *)
(* differing level sampled exactly 100 ms after it is accepted.            *)
(***************************************************************************)
C6_AcceptedIffAtLeastInterval ==
  [][ButtonTick /\ accepted =>
       (pub' # {} <=>
          /\ button # lastButtonState
          /\ Geq32(Sub32(now', lastAcceptTime), 100))]_vars

(***************************************************************************)
(* C7: a payload that is not well-formed JSON has no effect: mqttCallback  *)
(* writes no LED output, the program stays in its loop, and a valid        *)
(* message routed after it is applied as usual.                            *)
(***************************************************************************)
C7_MalformedDiscarded ==
  [][DeliveryStep =>
       /\ \A m \in lastMsg' :
            m.payload \in MalformedPayloads =>
              lastWrite' = {} /\ led' = led /\ pc' = "mqtt_loop" /\ phase' = "loop"
       /\ (\E m \in lastMsg : m.payload \in MalformedPayloads) =>
            \A m \in lastMsg' :
              m.topic \in LEDTopics /\ Requested(m.payload) # -1 =>
                led'[PinOfTopic[m.topic]] = Requested(m.payload)]_vars

\* a malformed payload on the red topic has left the lit red LED lit
C7_Witness ==
  /\ \E m \in lastMsg : m.topic = mqtt_topic_red /\ m.payload \in MalformedPayloads
  /\ led[26] = 1
  /\ lastWrite = {}
  /\ pc = "mqtt_loop"

(***************************************************************************)
(* C8: connectWiFi returns only when WiFi is associated, connectMQTT       *)
(* returns only when the broker session is open, a failed broker connect   *)
(* leaves the program in the retry loop of connectMQTT, and in every       *)
(* reachable state the program has a next step: there is no terminal       *)
(* state.                                                                  *)
(***************************************************************************)
ProgramStep ==
  \/ Setup
  \/ ConnectWiFiPoll
  \/ ConnectWiFiReturn
  \/ LoopWiFiCheck
  \/ LoopMqttCheck
  \/ ConnectMQTTFail
  \/ ConnectMQTTReturn
  \/ MqttLoopReturn

C8_NeverGivesUp ==
  /\ [](netOps = {"connect"} => pc = "connectMQTT")
  /\ [](ENABLED ProgramStep)
  /\ [][/\ pc = "connectWiFi" /\ pc' # "connectWiFi" => wifi
        /\ pc = "connectMQTT" /\ pc' # "connectMQTT" => mqttConn]_vars

\* a broker connect has failed and the program is about to try again
C8_Witness ==
  /\ pc = "connectMQTT"
  /\ netOps = {"connect"}
  /\ ~mqttConn
  /\ phase = "loop"

(***************************************************************************)
(* C9: with WiFi associated the WiFi check of loop() makes no network call *)
(* and goes on to the broker check; with the session open the broker check *)
(* makes none and goes on to mqtt_client.loop(); connectMQTT entered or    *)
(* continued with the session open makes no connect and no subscribe.      *)
(***************************************************************************)
NoNewNetCall == netOps' = netOps \/ netOps' = {}

C9_ConnectionCheckIdempotent ==
  [][/\ pc = "wifi_check" /\ wifi => NoNewNetCall /\ pc' \in {pc, "mqtt_check"}
     /\ pc = "mqtt_check" /\ mqttConn =>
          NoNewNetCall /\ pc' \in {pc, "mqtt_loop"} /\ subscribed' \in {subscribed, {}}
     /\ pc = "connectMQTT" /\ mqttConn =>
          NoNewNetCall /\ subscribed' \in {subscribed, {}}]_vars

\* both checks of a loop() iteration have passed without a network call
C9_Witness ==
  /\ phase = "loop"
  /\ pc = "mqtt_loop"
  /\ wifi
  /\ mqttConn
  /\ netOps = {}
  /\ drained = 0

(***************************************************************************)
(* C10: routing the same message a second time in a row leaves the four    *)
(* LED levels as the first routing left them.                              *)
(***************************************************************************)
C10_SameCommandTwice ==
  [][DeliveryStep /\ lastMsg' = lastMsg => led' = led]_vars

\* {"state":"ON"} on the blue topic has been routed twice in a row
C10_Witness ==
  /\ repeated
  /\ lastMsg = {[topic |-> mqtt_topic_blue, payload |-> StatePayload(Str("ON"))]}
  /\ lastWrite = {<<14, 1>>}
  /\ led[14] = 1

(***************************************************************************)
(* C11: a failed publish is absorbed. The tick whose publish fails updates *)
(* lastSensorReadTime (lastButtonState and lastDebounceTime) as a          *)
(* successful one does and goes on with the loop; while the latest sensor  *)
(* publish is a failed one, lastSensorReadTime keeps the time of that      *)
(* sample and a sensor tick publishes exactly when at least 5000 ms have   *)
(* passed since it; no other step publishes anything, and no step          *)
(* publishes more than one message.                                        *)
(***************************************************************************)
C11_FailedPublishAbsorbed ==
  [][/\ SensorTick /\ (\E m \in pub' : ~m.ok) =>
          lastSensorReadTime' = now' /\ sampled' /\ mqtt_topic_sensor \in lost'
     /\ ButtonTick /\ (\E m \in pub' : ~m.ok) =>
          lastButtonState' = button /\ lastDebounceTime' = now'
     /\ mqtt_topic_sensor \in lost /\ SensorTick =>
          (pub' # {} <=> Geq32(Sub32(now', lastSensorReadTime), 5000))
     /\ mqtt_topic_sensor \in lost /\ ~(SensorTick /\ pub' # {}) =>
          lastSensorReadTime' = lastSensorReadTime
     /\ pub' # pub /\ pub' # {} => SensorTick \/ ButtonTick
     /\ Cardinality(pub') <= 1]_vars

\* the sensor publish at t=5000 failed and the sensor tick at t=9999 has
\* published nothing
C11_Witness ==
  /\ pc = "button"
  /\ mqtt_topic_sensor \in lost
  /\ lastSensorReadTime = Ms(5000)
  /\ now = Ms(9999)
  /\ pub = {}

(***************************************************************************)
(* C12: while the program is inside the wait loop of connectWiFi or of     *)
(* connectMQTT nothing else runs: no step taken there publishes a sensor   *)
(* sample or a button event, routes an inbound message, writes an LED or   *)
(* touches the state of the sensor path and of the button path.            *)
(***************************************************************************)
Blocked == pc \in {"connectWiFi", "connectMQTT"}

C12_BlockedNothingRuns ==
  /\ [](Blocked => pub = {} /\ lastMsg = {})
  /\ [][Blocked =>
          /\ pub' = {} /\ lastMsg' = {}
          /\ lastWrite' \in {lastWrite, {}}
          /\ led' = led
          /\ drained' = drained
          /\ lastSensorReadTime' = lastSensorReadTime
          /\ lastButtonState' = lastButtonState
          /\ lastDebounceTime' = lastDebounceTime]_vars

\* a broker connect of loop() has failed while a sensor sample is due and
\* a button change is pending: neither has been published
C12_Witness ==
  /\ pc = "connectMQTT"
  /\ phase = "loop"
  /\ netOps = {"connect"}
  /\ ~mqttConn
  /\ sampled
  /\ Geq32(Sub32(now, lastSensorReadTime), 5000)
  /\ button # lastButtonState
  /\ pub = {}

(***************************************************************************)
(* C13: an iteration of loop() goes through its steps in one order: the    *)
(* WiFi check (and connectWiFi), the broker check (and connectMQTT), one   *)
(* mqtt_client.loop() in which the inbound messages are routed, the sensor *)
(* path, the button path, and then the next iteration. Messages are routed *)
(* only inside mqtt_client.loop(), the sensor is published only by the     *)
(* sensor path and the button only by the button path.                     *)
(***************************************************************************)
LoopOrder ==
  { <<"wifi_check", "connectWiFi">>, <<"wifi_check", "mqtt_check">>,
    <<"connectWiFi", "mqtt_check">>,
    <<"mqtt_check", "connectMQTT">>, <<"mqtt_check", "mqtt_loop">>,
    <<"connectMQTT", "mqtt_loop">>,
    <<"mqtt_loop", "sensor">>,
    <<"sensor", "button">>,
    <<"button", "wifi_check">> }

C13_LoopOrder ==
  [][/\ phase = "loop" /\ pc' # pc => <<pc, pc'>> \in LoopOrder
     /\ DeliveryStep => phase = "loop" /\ pc = "mqtt_loop" /\ pc' = "mqtt_loop"
     /\ pc = "mqtt_loop" /\ pc' # pc => drained' = 0
     /\ pc # "mqtt_loop" => drained' = 0 /\ lastMsg' = {}
     /\ pub' # pub /\ (\E m \in pub' : m.topic = mqtt_topic_sensor) => SensorTick
     /\ pub' # pub /\ (\E m \in pub' : m.topic = mqtt_topic_button) => ButtonTick]_vars

\* an iteration has routed a message, sampled the sensor and published a
\* button event, and the next iteration is about to start
C13_Witness ==
  /\ phase = "loop"
  /\ pc = "wifi_check"
  /\ led[26] = 1
  /\ sampled
  /\ lastSensorReadTime = now
  /\ \E m \in pub : m.topic = mqtt_topic_button /\ m.timestamp = now

(***************************************************************************)
(* C14: a sensor tick samples and publishes exactly when at least 5000 ms  *)
(* have passed since the time recorded at the previous sample (since 0     *)
(* before the first sample), and it then records the time it has read; so  *)
(* the recorded times of two consecutive samples are at least 5000 ms      *)
(* apart. A tick publishes at most one sample, and between two sensor      *)
(* ticks lies the rest of a loop() iteration.                              *)
(***************************************************************************)
C14_SensorIntervalGate ==
  /\ [](\A t \in prevSample : Geq32(Sub32(lastSensorReadTime, t), 5000))
  /\ [][/\ SensorTick =>
             /\ Cardinality(pub') <= 1
             /\ IF Geq32(Sub32(now', lastSensorReadTime), 5000)
                  THEN /\ \E m \in pub' : m.topic = mqtt_topic_sensor
                       /\ lastSensorReadTime' = now'
                       /\ Geq32(Sub32(lastSensorReadTime', lastSensorReadTime), 5000)
                  ELSE /\ pub' = {}
                       /\ lastSensorReadTime' = lastSensorReadTime
        /\ ~SensorTick => lastSensorReadTime' = lastSensorReadTime
        /\ pc = "sensor" => pc' \in {"sensor", "button"}
        /\ pc' = "sensor" => pc \in {"sensor", "mqtt_loop"}]_vars

\* the second sample has been published, 5000 ms after the first
C14_Witness ==
  /\ pc = "button"
  /\ prevSample = {Ms(5000)}
  /\ lastSensorReadTime = Ms(10000)
  /\ \E m \in pub : m.topic = mqtt_topic_sensor /\ m.timestamp = Ms(10000)

(***************************************************************************)
(* C15: the button tick that accepts an edge publishes one message to the  *)
(* button topic, whose `event` is "pressed" when the level it has read and *)
(* accepted is HIGH and "released" when it is LOW; a button tick that      *)
(* accepts no edge publishes nothing.                                      *)
(***************************************************************************)
C15_EventNamesLevel ==
  [][ButtonTick =>
       IF lastButtonState' # lastButtonState \/ lastDebounceTime' # lastDebounceTime
         THEN /\ lastButtonState' = button
              /\ \E m \in pub' :
                   /\ pub' = {m}
                   /\ m.topic = "ttpu/iot/maqsud/events/button"
                   /\ button = 1 => m.event = "pressed"
                   /\ button = 0 => m.event = "released"
         ELSE pub' = {}]_vars

\* a release has been accepted and published as "released"
C15_Witness ==
  /\ pc = "wifi_check"
  /\ accepted
  /\ button = 0
  /\ lastButtonState = 0
  /\ \E m \in pub : m.topic = "ttpu/iot/maqsud/events/button" /\ m.event = "released"

(***************************************************************************)
(* C16: when lcd.begin() returns a non-zero status the LCD sketch never    *)
(* leaves hd44780::fatalError(): setup() does not complete, loop() does    *)
(* not run, the counter stays 0 and nothing is written to the display.     *)
(***************************************************************************)
C16_LcdInitFailureFatal ==
  /\ [](status # 0 =>
          /\ pc = "fatalError"
          /\ counter = 0 /\ elapsedSeconds = Ms(0) /\ lastUpdate = Ms(0)
          /\ display = {})
  /\ [](pc \in {"lcd_init", "lcd_loop"} => status = 0)
  /\ [][pc = "fatalError" => pc' = "fatalError" /\ display' = display]_vars

\* lcd.begin() has failed, and the program is in fatalError() long after
\* loop() would have made its first display update
C16_Witness ==
  /\ sketch = "lcd"
  /\ status # 0
  /\ pc = "fatalError"
  /\ fatalLed = 1
  /\ now = Ms(8000)
  /\ display = {}

(***************************************************************************)
(* C17: the button events alternate. The first event published after       *)
(* startup is "pressed", and every later event differs from the event      *)
(* published before it, whenever the button changes and whenever the       *)
(* button path reads the clock.                                            *)
(***************************************************************************)
C17_EventsAlternate ==
  /\ [](lastEvent = "" <=> ~accepted)
  /\ [][ButtonTick =>
          \A m \in pub' :
            /\ m.event \in {"pressed", "released"}
            /\ m.event # lastEvent
            /\ lastEvent = "" => m.event = "pressed"
            /\ lastEvent' = m.event]_vars

\* "pressed" and "released" have been published, and the button is down
\* again inside the debounce window
C17_Witness ==
  /\ pc = "wifi_check"
  /\ lastEvent = "released"
  /\ button = 1
  /\ now = lastDebounceTime
  /\ \E m \in pub : m.event = "released"

(***************************************************************************)
(* C18: a sustained button change is not lost. When the button path keeps  *)
(* running at times at which the debounce interval can have passed, the    *)
(* level of the button is again and again the level named by the latest    *)
(* published event (LOW before any event): a level that differs from the   *)
(* last accepted one and stays is accepted and published, also when it was *)
(* first sampled, and rejected, inside the debounce window.                *)
(***************************************************************************)
GateCanOpen == \E t \in After(now, 0) : Gt32(Sub32(t, lastDebounceTime), 100)

LevelReported ==
  \/ button = 1 /\ lastEvent = "pressed"
  \/ button = 0 /\ lastEvent \in {"", "released"}

C18_SustainedChangeAccepted ==
  []<>(pc = "button" /\ GateCanOpen) => []<>LevelReported

\* a release sampled and rejected inside the debounce window has been
\* accepted by a later tick
C18_Witness ==
  /\ pc = "wifi_check"
  /\ recovered
  /\ lastEvent = "released"
  /\ button = 0
  /\ \E m \in pub : m.event = "released"

(***************************************************************************)
(* C19: once setup() has written the four LED outputs LOW, each LED output *)
(* is at the level asked for by the latest valid command routed on its own *)
(* topic, and LOW when there has been none. Only a step that routes a      *)
(* message changes an LED, and it changes no LED but the one of the        *)
(* message's topic; losing and re-establishing the WiFi association or the *)
(* broker session changes none.                                            *)
(***************************************************************************)
C19_LedFollowsLatestCommand ==
  /\ [](led = want)
  /\ [][/\ ~DeliveryStep => led' = led
        /\ DeliveryStep =>
             \A m \in lastMsg', p \in LEDPins :
               led'[p] # led[p] => m.topic \in LEDTopics /\ p = PinOfTopic[m.topic]
        /\ wifi' # wifi \/ mqttConn' # mqttConn \/ subscribed' # subscribed => led' = led]_vars

\* the red LED, lit by a command, is still lit after the broker session
\* was lost and loop() has connected and subscribed again
C19_Witness ==
  /\ phase = "loop"
  /\ pc = "connectMQTT"
  /\ "connect" \in netOps
  /\ mqttConn
  /\ want[26] = 1
  /\ led[26] = 1
  /\ led[27] = 0

(***************************************************************************)
(* C20: the time gates follow real time across the wrap of the millisecond *)
(* counter. Real time is the reading of the counter together with the      *)
(* number of times it has wrapped. After a first sample, a sensor tick     *)
(* publishes exactly when at least 5000 ms of real time have passed since  *)
(* the latest sample; after a first accepted edge, a button tick that      *)
(* reads a level different from the last accepted one accepts it exactly   *)
(* when more than 100 ms of real time have passed since the latest         *)
(* accepted edge.                                                          *)
(***************************************************************************)
\* at least n ms, more than n ms, of real time lie between the reading t0
\* taken after e0 wraps and the later reading t1 taken after e1 wraps
ElapsedGeq(e1, t1, e0, t0, n) ==
  IF e1 = e0 \/ (e1 = e0 + 1 /\ Before(t1, t0))
    THEN Sub32(t1, t0).hi > 0 \/ Sub32(t1, t0).lo >= n
    ELSE TRUE

ElapsedGt(e1, t1, e0, t0, n) ==
  IF e1 = e0 \/ (e1 = e0 + 1 /\ Before(t1, t0))
    THEN Sub32(t1, t0).hi > 0 \/ Sub32(t1, t0).lo > n
    ELSE TRUE

C20_GatesFollowRealTime ==
  [][/\ SensorTick /\ sampled =>
          (pub' # {} <=>
             ElapsedGeq(epoch', now', sampleEpoch, lastSensorReadTime, 5000))
     /\ ButtonTick /\ accepted /\ button # lastButtonState =>
          (pub' # {} <=>
             ElapsedGt(epoch', now', acceptEpoch, lastDebounceTime, 100))]_vars

(***************************************************************************)
(* C21: the retry loop of connectMQTT never re-checks or re-initiates the  *)
(* WiFi association. While the program is in connectMQTT no step calls     *)
(* WiFi.begin or enters connectWiFi, whatever the state of the             *)
(* association, and the loop is left only with the broker session open.    *)
(* connectWiFi is entered only from setup() and from the WiFi check of     *)
(* loop(). In one loop() iteration the WiFi check comes first and is       *)
(* followed by the broker check, and neither is evaluated a second time:   *)
(* connectWiFi and the WiFi check lead to the broker check only, the       *)
(* broker check and connectMQTT called from loop() lead to                 *)
(* mqtt_client.loop() only, and mqtt_client.loop() leads to neither check  *)
(* of the same iteration.                                                  *)
(***************************************************************************)
C21_ConnectMQTTNeverRechecksWiFi ==
  [][/\ pc = "connectMQTT" =>
          /\ "WiFi.begin" \notin netOps'
          /\ pc' \in {"connectMQTT", "wifi_check", "mqtt_loop"}
          /\ pc' # "connectMQTT" => mqttConn
          /\ phase = "loop" => pc' # "wifi_check"
     /\ pc' = "connectWiFi" /\ pc # "connectWiFi" =>
          pc \in {"start", "wifi_check"} /\ netOps' = {"WiFi.begin"}
     /\ pc = "wifi_check" => pc' \in {"wifi_check", "connectWiFi", "mqtt_check"}
     /\ pc = "connectWiFi" /\ phase = "loop" => pc' \in {"connectWiFi", "mqtt_check"}
     /\ pc = "mqtt_check" => pc' \in {"mqtt_check", "connectMQTT", "mqtt_loop"}
     /\ pc = "mqtt_loop" => pc' \notin {"mqtt_check", "connectWiFi", "connectMQTT"}]_vars

\* the association is down while connectMQTT, called from loop(), has just
\* failed a broker connect and stays in its retry loop
C21_Witness ==
  /\ sketch = "led"
  /\ phase = "loop"
  /\ pc = "connectMQTT"
  /\ ~wifi
  /\ ~mqttConn
  /\ netOps = {"connect"}

(***************************************************************************)
(* C22: whatever the value of elapsedSeconds, the fields                   *)
(* calculateCurrentTime yields are in range: second and minute in 0..59,   *)
(* hour in 0..23, day in 1..30, month in 1..12. From one display update to *)
(* the next the year increases by one exactly when the month rolls over    *)
(* from 12 to 1.                                                           *)
(***************************************************************************)
InRange(t) ==
  /\ t.second \in 0..59
  /\ t.minute \in 0..59
  /\ t.hour \in 0..23
  /\ t.day \in 1..30
  /\ t.month \in 1..12

C22_ClockFieldsInRange ==
  /\ [](\A d \in display : InRange(d.time))
  /\ [][elapsedSeconds' # elapsedSeconds =>
          \A a \in display, b \in display' :
            (b.time.year = a.time.year + 1) <=>
              (a.time.month = 12 /\ b.time.month = 1)]_vars

\* the display update that rolls the simulated clock over from
\* 30/12/2025 23:59:59 to 01/01/2026 00:00:00
C22_Witness ==
  /\ elapsedSeconds = Ms(29856600)
  /\ \E d \in display :
       d.time = [hour |-> 0, minute |-> 0, second |-> 0,
                 day |-> 1, month |-> 1, year |-> START_YEAR + 1]

(***************************************************************************)
(* C23: in the LCD sketch the counter and the simulated clock advance by   *)
(* one per display update, not by the time that has passed: in every state *)
(* counter equals elapsedSeconds, one loop() iteration increases each of   *)
(* them by at most 1, and they increase only when millis() is at least     *)
(* 1000 ms past the previous update.                                       *)
(***************************************************************************)
SameCount == counter >= 0 /\ Ms(counter) = elapsedSeconds

C23_CounterFollowsUpdates ==
  /\ []SameCount
  /\ [][/\ counter' = counter \/ (counter < INT_MAX /\ counter' = counter + 1)
        /\ elapsedSeconds' \in {elapsedSeconds, Add32(elapsedSeconds, Ms(1))}
        /\ counter' # counter \/ elapsedSeconds' # elapsedSeconds =>
             /\ UpdateDue(now', lastUpdate)
             /\ lastUpdate' = now']_vars

====
